---- MODULE Spec2Model ----
(***************************************************************************)
(* Model of src/main.rs: HuggingFaceSummarizer.                            *)
(*   chunk_text      - pure word packer (Spec: SpecChunk)                  *)
(*   summarize_text  - one blocking request per chunk, then join           *)
(*   process_video   - extract id -> fetch transcript -> summarize         *)
(* A string is a sequence of one-character strings.                        *)
(***************************************************************************)
EXTENDS Integers, Sequences, FiniteSets, TLC

VARIABLES
    pc,           \* position of the single thread of control
    youtube_url,  \* process_video's argument
    video_id,     \* local of process_video (Option<String>)
    result,       \* local `result: Summary` of process_video (Option: None before line 144)
    text,         \* chunk_text's argument
    max_length,   \* chunk_text's argument
    chunks,       \* value returned by chunk_text
    i,            \* 1-based index of the chunk the loop of summarize_text is at (0: not called)
    summaries,    \* local Vec<String> of summarize_text
    responses,    \* bodies of the HTTP responses received so far, in order
    requests,     \* JSON bodies of the HTTP requests issued so far, in order
    fetches,      \* python3 transcript commands run so far, with their outcome
    ret           \* value returned by process_video (Option<Result<Summary>>)

vars == <<pc, youtube_url, video_id, result, text, max_length, chunks, i,
          summaries, responses, requests, fetches, ret>>

-----------------------------------------------------------------------------
(* Bounds *)
MaxTextLen == 6    \* longest text given to chunk_text in SpecChunk
MaxBudget == 7     \* largest max_length given to chunk_text in SpecChunk
MaxWords == 2      \* most words in a fetched transcript
MaxItems == 2      \* most elements in a response array

(* Program constants *)
ChunkSize == 1024
IdLen == 11
ApiMaxLength == 150
ApiMinLength == 30

-----------------------------------------------------------------------------
(* Option and Result *)
None == [some |-> FALSE]
Some(x) == [some |-> TRUE, val |-> x]
Ok(x) == [ok |-> TRUE, val |-> x]
Err(e) == [ok |-> FALSE, err |-> e]

Min(S) == CHOOSE x \in S : \A y \in S : x <= y

RECURSIVE SetToSortedSeq(_)
SetToSortedSeq(S) ==
    IF S = {} THEN <<>>
    ELSE LET m == Min(S) IN <<m>> \o SetToSortedSeq(S \ {m})

Rep(c, n) == [k \in 1..n |-> c]

-----------------------------------------------------------------------------
(* chunk_text *)

IsWhitespace(c) == c \in {" ", "\t", "\n"}

\* str::split_whitespace: the maximal runs of non-whitespace characters, in order
WordStarts(s) ==
    {p \in 1..Len(s) : ~IsWhitespace(s[p]) /\ (p = 1 \/ IsWhitespace(s[p - 1]))}

WordEnd(s, p) ==
    Min({q \in p..Len(s) : q = Len(s) \/ IsWhitespace(s[q + 1])})

split_whitespace(s) ==
    LET st == SetToSortedSeq(WordStarts(s))
    IN  [k \in 1..Len(st) |-> SubSeq(s, st[k], WordEnd(s, st[k]))]

\* [&str]::join(sep)
RECURSIVE join(_, _)
join(v, sep) ==
    IF v = <<>> THEN <<>>
    ELSE IF Len(v) = 1 THEN v[1]
    ELSE v[1] \o sep \o join(Tail(v), sep)

\* the locals of chunk_text at the top of the loop
ChunkInit == [chunks |-> <<>>, current_chunk |-> <<>>, current_length |-> 0]

\* a loop body that charges a word its length without the separating space
LoopBodyNoSpace(acc, word, max_len) ==
    LET word_len == Len(word)
        flush == acc.current_length + word_len > max_len /\ acc.current_chunk # <<>>
        a1 == IF flush
              THEN [chunks |-> Append(acc.chunks, join(acc.current_chunk, <<" ">>)),
                    current_chunk |-> <<>>, current_length |-> 0]
              ELSE acc
    IN  [chunks |-> a1.chunks,
         current_chunk |-> Append(a1.current_chunk, word),
         current_length |-> a1.current_length + word_len]

\* a loop body that loses the word that triggers a flush
LoopBodyDropWord(acc, word, max_len) ==
    LET word_len == Len(word) + 1
        flush == acc.current_length + word_len > max_len /\ acc.current_chunk # <<>>
    IN  IF flush
        THEN [chunks |-> Append(acc.chunks, join(acc.current_chunk, <<" ">>)),
              current_chunk |-> <<>>, current_length |-> 0]
        ELSE [chunks |-> acc.chunks,
              current_chunk |-> Append(acc.current_chunk, word),
              current_length |-> acc.current_length + word_len]

\* a loop body that flushes only when the counter alone is over the budget
LoopBodyLateFlush(acc, word, max_len) ==
    LET word_len == Len(word) + 1
        flush == acc.current_length > max_len /\ acc.current_chunk # <<>>
        a1 == IF flush
              THEN [chunks |-> Append(acc.chunks, join(acc.current_chunk, <<" ">>)),
                    current_chunk |-> <<>>, current_length |-> 0]
              ELSE acc
    IN  [chunks |-> a1.chunks,
         current_chunk |-> Append(a1.current_chunk, word),
         current_length |-> a1.current_length + word_len]

\* one iteration of `for word in words` (lines 82-91)
LoopBody(acc, word, max_len) ==
    LET word_len == Len(word) + 1
        flush == acc.current_length + word_len > max_len /\ acc.current_chunk # <<>>
        a1 == IF flush
              THEN [chunks |-> Append(acc.chunks, join(acc.current_chunk, <<" ">>)),
                    current_chunk |-> <<>>, current_length |-> 0]
              ELSE acc
    IN  [chunks |-> a1.chunks,
         current_chunk |-> Append(a1.current_chunk, word),
         current_length |-> a1.current_length + word_len]

RECURSIVE ChunkLoop(_, _, _)
ChunkLoop(acc, words, max_len) ==
    IF words = <<>> THEN acc
    ELSE ChunkLoop(LoopBody(acc, Head(words), max_len), Tail(words), max_len)

chunk_text(t, max_len) ==
    LET acc == ChunkLoop(ChunkInit, split_whitespace(t), max_len)
    IN  IF acc.current_chunk # <<>>
        THEN Append(acc.chunks, join(acc.current_chunk, <<" ">>))
        ELSE acc.chunks

-----------------------------------------------------------------------------
(* Inputs of chunk_text in SpecChunk *)
Chars == {"a", "b", " ", "\n"}

RECURSIVE StringsUpTo(_)
StringsUpTo(n) ==
    IF n = 0 THEN {<<>>}
    ELSE LET S == StringsUpTo(n - 1)
         IN  S \cup {Append(s, c) : s \in {x \in S : Len(x) = n - 1}, c \in Chars}

HelloWorldFoo ==
    <<"h","e","l","l","o"," ","w","o","r","l","d"," ","f","o","o">>
Hello == <<"h","e","l","l","o">>
World == <<"w","o","r","l","d">>
Foo == <<"f","o","o">>

Idle ==
    /\ youtube_url = <<>>
    /\ video_id = None
    /\ result = None
    /\ i = 0
    /\ summaries = <<>>
    /\ responses = <<>>
    /\ requests = <<>>
    /\ fetches = <<>>
    /\ ret = None

InitChunk ==
    /\ pc = "chunk_text"
    /\ \/ text \in StringsUpTo(MaxTextLen) /\ max_length \in 1..MaxBudget
       \/ text = HelloWorldFoo /\ max_length \in {11, 12}
    /\ chunks = <<>>
    /\ Idle

ChunkText ==
    /\ pc = "chunk_text"
    /\ chunks' = chunk_text(text, max_length)
    /\ pc' = "chunk_text_done"
    /\ UNCHANGED <<youtube_url, video_id, result, text, max_length, i,
                   summaries, responses, requests, fetches, ret>>

NextChunk == ChunkText

SpecChunk == InitChunk /\ [][NextChunk]_vars

-----------------------------------------------------------------------------
(* extract_video_id *)

IdChars ==
    {"0","1","2","3","4","5","6","7","8","9",
     "A","B","C","D","E","F","G","H","I","J","K","L","M",
     "N","O","P","Q","R","S","T","U","V","W","X","Y","Z",
     "a","b","c","d","e","f","g","h","i","j","k","l","m",
     "n","o","p","q","r","s","t","u","v","w","x","y","z",
     "_","-"}

\* [0-9A-Za-z_-]{n} matches at position q of u
IdRun(u, q, n) ==
    /\ q + n - 1 <= Len(u)
    /\ \A k \in q..(q + n - 1) : u[k] \in IdChars

\* start of capture group 1 when (?:v=|/)([0-9A-Za-z_-]{n}) matches at p, else 0
MatchAt(u, p, n) ==
    IF p + 1 <= Len(u) /\ u[p] = "v" /\ u[p + 1] = "=" /\ IdRun(u, p + 2, n)
    THEN p + 2
    ELSE IF u[p] = "/" /\ IdRun(u, p + 1, n) THEN p + 1
    ELSE 0

\* Regex::captures takes the leftmost match
Captures(u, n) ==
    LET ps == {p \in 1..Len(u) : MatchAt(u, p, n) # 0}
    IN  IF ps = {} THEN None
        ELSE LET q == MatchAt(u, Min(ps), n) IN Some(SubSeq(u, q, q + n - 1))

\* a pattern that accepts identifiers one character short
extract_video_id_short(u) == Captures(u, IdLen - 1)

extract_video_id(u) == Captures(u, IdLen)

-----------------------------------------------------------------------------
(* anyhow errors: a chain of layers, outermost context first; a layer is a    *)
(* format string and its arguments                                          *)
Layer(msg, args) == [msg |-> msg, args |-> args]

ExtractFailed == "Failed to extract video ID from URL"
ExecFailed == "Failed to execute python command. Make sure python3 and youtube_transcript_api are installed"
TranscriptFailed == "Failed to get transcript: {}"
Utf8Failed == "Failed to parse transcript output"
SendFailed == "Failed to send request to API"
ParseFailed == "Failed to parse API response"
NoSummaries == "No summaries were generated"

-----------------------------------------------------------------------------
(* get_transcript *)

\* missing the exit status check of lines 64-67
get_transcript_unchecked(out) ==
    IF ~out.spawned
    THEN Err(<<Layer(ExecFailed, <<>>), Layer("io::Error", <<>>)>>)
    ELSE IF ~out.utf8
    THEN Err(<<Layer(Utf8Failed, <<>>), Layer("FromUtf8Error", <<>>)>>)
    ELSE Ok(out.stdout)

\* out: what Command::output() gave for the python3 command
get_transcript(out) ==
    IF ~out.spawned
    THEN Err(<<Layer(ExecFailed, <<>>), Layer("io::Error", <<>>)>>)
    ELSE IF ~out.success
    THEN Err(<<Layer(TranscriptFailed, <<"stderr">>)>>)
    ELSE IF ~out.utf8
    THEN Err(<<Layer(Utf8Failed, <<>>), Layer("FromUtf8Error", <<>>)>>)
    ELSE Ok(out.stdout)

-----------------------------------------------------------------------------
(* summarize_text *)

Separator == <<"\n", "\n">>

Request(chunk) ==
    [inputs |-> chunk,
     parameters |-> [max_length |-> ApiMaxLength, min_length |-> ApiMinLength,
                     do_sample |-> FALSE]]

\* Response::into_json::<Vec<ApiResponse>>: the body must be a JSON array of
\* objects that all have a summary_text string (other fields are ignored)
into_json(body) ==
    IF body.kind = "array" /\ \A k \in DOMAIN body.items : body.items[k].key = "summary_text"
    THEN Ok([k \in DOMAIN body.items |-> [summary_text |-> body.items[k].value]])
    ELSE Err(<<Layer(ParseFailed, <<>>), Layer("serde_json::Error", <<>>)>>)

\* a transport error returned without the context of line 120
TransportErrorBare(cause) == Err(<<Layer(cause, <<>>)>>)

\* the error of line 120
TransportError(cause) == Err(<<Layer(SendFailed, <<>>), Layer(cause, <<>>)>>)

\* taking the last element of the array instead of the first
PushLast(sums, parsed) ==
    IF parsed # <<>> THEN Append(sums, parsed[Len(parsed)].summary_text) ELSE sums

\* lines 125-127
PushFirst(sums, parsed) ==
    IF parsed # <<>> THEN Append(sums, parsed[1].summary_text) ELSE sums

\* an aggregation without the emptiness check of lines 130-132
AggregateUnchecked(sums) == Ok(join(sums, Separator))

\* lines 130-135
Aggregate(sums) ==
    IF sums = <<>> THEN Err(<<Layer(NoSummaries, <<>>)>>)
    ELSE Ok(join(sums, Separator))

-----------------------------------------------------------------------------
(* Inputs of process_video *)

SampleId == <<"d","Q","w","4","w","9","W","g","X","c","Q","_">>

Prefixes ==
    {<<>>,
     <<"v","=">>,
     <<"/">>,
     <<"v">>,
     <<"/","w","a","t","c","h","?","v","=">>,
     <<"y","o","u","t","u",".","b","e","/">>,
     <<"v","=","a","b","/">>}

\* read_line keeps the newline that ends the line typed by the user
Suffixes == {<<"&","t","=","1","\n">>}

\* the first n characters of SampleId, with "." in place of character bad
Body(n, bad) == [k \in 1..n |-> IF k = bad THEN "." ELSE SampleId[k]]

Urls ==
    {pre \o Body(n, bad) \o suf :
        pre \in Prefixes, n \in (IdLen - 1)..(IdLen + 1),
        bad \in {0, 1, IdLen}, suf \in Suffixes}

Letters == <<"a", "b", "c", "d", "e", "f">>

RECURSIVE WordsText(_, _)
WordsText(n, len) ==
    IF n = 0 THEN <<>>
    ELSE IF n = 1 THEN Rep(Letters[1], len)
    ELSE WordsText(n - 1, len) \o <<" ">> \o Rep(Letters[n], len)

\* stdout of the python3 command: n words of len characters and print's newline
Transcripts ==
    {WordsText(n, len) \o <<"\n">> : n \in 0..MaxWords, len \in {1, ChunkSize \div 2 + 1}}

ProcOutputs ==
    {[spawned |-> FALSE, success |-> FALSE, utf8 |-> FALSE, stdout |-> <<>>],
     [spawned |-> TRUE, success |-> FALSE, utf8 |-> TRUE, stdout |-> <<>>],
     [spawned |-> TRUE, success |-> TRUE, utf8 |-> FALSE, stdout |-> <<>>]}
    \cup {[spawned |-> TRUE, success |-> TRUE, utf8 |-> TRUE, stdout |-> t] : t \in Transcripts}

Items == [key : {"summary_text"}, value : {<<"A">>, <<"B">>}]
         \cup [key : {"generated_text"}, value : {<<"A">>}]

RECURSIVE SeqsUpTo(_, _)
SeqsUpTo(S, n) ==
    IF n = 0 THEN {<<>>}
    ELSE LET P == SeqsUpTo(S, n - 1)
         IN  P \cup {Append(q, x) : q \in {y \in P : Len(y) = n - 1}, x \in S}

Bodies ==
    {[kind |-> "array", items |-> its] : its \in SeqsUpTo(Items, MaxItems)}
    \cup {[kind |-> "object", items |-> <<>>], [kind |-> "text", items |-> <<>>]}

\* what ureq's send_json returns: a response, or Error::Transport / Error::Status
SendOutcomes ==
    {Ok(b) : b \in Bodies} \cup {Err("ureq::Error::Transport"), Err("ureq::Error::Status")}

-----------------------------------------------------------------------------
(* process_video *)

Init ==
    /\ pc = "Start"
    /\ youtube_url \in Urls
    /\ video_id = None
    /\ result = None
    /\ text = <<>>
    /\ max_length = 0
    /\ chunks = <<>>
    /\ i = 0
    /\ summaries = <<>>
    /\ responses = <<>>
    /\ requests = <<>>
    /\ fetches = <<>>
    /\ ret = None

\* lines 139-148
ProcessVideoExtract ==
    /\ pc = "Start"
    /\ LET id == extract_video_id(youtube_url)
       IN  IF id.some
           THEN /\ video_id' = id
                /\ result' = Some([video_id |-> Some(id.val), transcript |-> None,
                                   summary |-> None])
                /\ pc' = "IdentifierExtracted"
                /\ ret' = ret
           ELSE /\ pc' = "Failed"
                /\ ret' = Err(<<Layer(ExtractFailed, <<>>)>>)
                /\ UNCHANGED <<video_id, result>>
    /\ UNCHANGED <<youtube_url, text, max_length, chunks, i, summaries,
                   responses, requests, fetches>>

\* lines 150-151
ProcessVideoFetch ==
    /\ pc = "IdentifierExtracted"
    /\ \E out \in ProcOutputs :
          LET r == get_transcript(out)
          IN  /\ fetches' = Append(fetches, [video_id |-> video_id.val, output |-> out])
              /\ IF r.ok
                 THEN /\ result' = Some([result.val EXCEPT !.transcript = Some(r.val)])
                      /\ pc' = "TranscriptFetched"
                      /\ ret' = ret
                 ELSE /\ pc' = "Failed"
                      /\ ret' = r
                      /\ result' = result
    /\ UNCHANGED <<youtube_url, video_id, text, max_length, chunks, i,
                   summaries, responses, requests>>

\* lines 153, 102-105
SummarizeTextBegin ==
    /\ pc = "TranscriptFetched"
    /\ text' = result.val.transcript.val
    /\ max_length' = ChunkSize
    /\ chunks' = chunk_text(text', max_length')
    /\ summaries' = <<>>
    /\ i' = 1
    /\ pc' = "Summarizing"
    /\ UNCHANGED <<youtube_url, video_id, result, responses, requests, fetches, ret>>

\* lines 107-120, an outcome that ends the loop where the model of the loop goes on
SummarizeTextSendAll ==
    /\ pc = "Summarizing"
    /\ i <= Len(chunks)
    /\ requests' = requests \o [k \in 1..(Len(chunks) - i + 1) |-> Request(chunks[i + k - 1])]
    /\ \E o \in SendOutcomes :
          /\ responses' = Append(responses, o)
          /\ IF o.ok
             THEN pc' = "ResponseReceived" /\ ret' = ret
             ELSE pc' = "Failed" /\ ret' = TransportError(o.err)
    /\ UNCHANGED <<youtube_url, video_id, result, text, max_length, chunks, i,
                   summaries, fetches>>

\* lines 107-120
SummarizeTextSend ==
    /\ pc = "Summarizing"
    /\ i <= Len(chunks)
    /\ requests' = Append(requests, Request(chunks[i]))
    /\ \E o \in SendOutcomes :
          /\ responses' = Append(responses, o)
          /\ IF o.ok
             THEN pc' = "ResponseReceived" /\ ret' = ret
             ELSE pc' = "Failed" /\ ret' = TransportError(o.err)
    /\ UNCHANGED <<youtube_url, video_id, result, text, max_length, chunks, i,
                   summaries, fetches>>

\* lines 122-128
SummarizeTextParse ==
    /\ pc = "ResponseReceived"
    /\ LET summary == into_json(responses[Len(responses)].val)
       IN  IF summary.ok
           THEN /\ summaries' = PushFirst(summaries, summary.val)
                /\ i' = i + 1
                /\ pc' = "Summarizing"
                /\ ret' = ret
           ELSE /\ pc' = "Failed"
                /\ ret' = summary
                /\ UNCHANGED <<summaries, i>>
    /\ UNCHANGED <<youtube_url, video_id, result, text, max_length, chunks,
                   responses, requests, fetches>>

\* lines 130-135, 153-154
SummarizeTextEnd ==
    /\ pc = "Summarizing"
    /\ i > Len(chunks)
    /\ LET summary == Aggregate(summaries)
       IN  IF summary.ok
           THEN /\ result' = Some([result.val EXCEPT !.summary = Some(summary.val)])
                /\ pc' = "Summarized"
                /\ ret' = ret
           ELSE /\ pc' = "Failed"
                /\ ret' = summary
                /\ result' = result
    /\ UNCHANGED <<youtube_url, video_id, text, max_length, chunks, i, summaries,
                   responses, requests, fetches>>

\* line 156
ProcessVideoReturn ==
    /\ pc = "Summarized"
    /\ ret' = Ok(result.val)
    /\ pc' = "Done"
    /\ UNCHANGED <<youtube_url, video_id, result, text, max_length, chunks, i,
                   summaries, responses, requests, fetches>>

Next ==
    \/ ProcessVideoExtract
    \/ ProcessVideoFetch
    \/ SummarizeTextBegin
    \/ SummarizeTextSend
    \/ SummarizeTextParse
    \/ SummarizeTextEnd
    \/ ProcessVideoReturn

Spec == Init /\ [][Next]_vars

-----------------------------------------------------------------------------
(* Properties of chunk_text, checked under SpecChunk *)

Returned == pc = "chunk_text_done"
WordsOf(c) == split_whitespace(c)
Space == <<" ">>

\* C1: joining the returned chunks with single spaces gives exactly the
\* whitespace-separated words of the input joined with single spaces, and the
\* words of the chunks, taken in order, are the words of the input.
RECURSIVE ConcatWords(_)
ConcatWords(cs) ==
    IF cs = <<>> THEN <<>> ELSE WordsOf(Head(cs)) \o ConcatWords(Tail(cs))

C1_RoundTrip ==
    Returned =>
        /\ join(chunks, Space) = join(split_whitespace(text), Space)
        /\ ConcatWords(chunks) = split_whitespace(text)

C1_Witness ==
    /\ Returned
    /\ Len(chunks) >= 2
    /\ \E k \in DOMAIN chunks : Len(WordsOf(chunks[k])) >= 2
    /\ text # join(split_whitespace(text), Space)
    /\ join(chunks, Space) = join(split_whitespace(text), Space)

\* C2: every returned chunk is at most max_length characters long, unless it
\* is exactly one word that is itself longer than max_length (so an oversized
\* word never shares a chunk with another word).
C2_Bounded ==
    Returned =>
        \A k \in DOMAIN chunks :
            \/ Len(chunks[k]) <= max_length
            \/ /\ Len(WordsOf(chunks[k])) = 1
               /\ Len(WordsOf(chunks[k])[1]) > max_length

C2_Witness ==
    /\ Returned
    /\ \E k \in DOMAIN chunks :
          Len(WordsOf(chunks[k])) = 1 /\ Len(chunks[k]) > max_length
    /\ \E k \in DOMAIN chunks : Len(chunks[k]) <= max_length

\* C3 as stated: a chunk is closed only when the chunk, one space and the next
\* word would be longer than max_length, and "hello world foo" with budget 11
\* gives ["hello world", "foo"].
C3_AsStated ==
    Returned =>
        /\ \A k \in 1..(Len(chunks) - 1) :
              Len(chunks[k]) + 1 + Len(WordsOf(chunks[k + 1])[1]) > max_length
        /\ (text = HelloWorldFoo /\ max_length = 11) =>
              chunks = <<Hello \o Space \o World, Foo>>

\* C3 amended: the counter charges every word its length plus one, so a chunk
\* is closed only when the chunk, one space, the next word and one more
\* character would be longer than max_length, and a chunk of two or more words
\* is at most max_length - 1 long; "hello world foo" gives ["hello",
\* "world foo"] with budget 11 and ["hello world", "foo"] with budget 12.
C3_CounterGreedy ==
    Returned =>
        /\ \A k \in 1..(Len(chunks) - 1) :
              Len(chunks[k]) + 1 + Len(WordsOf(chunks[k + 1])[1]) + 1 > max_length
        /\ \A k \in DOMAIN chunks :
              Len(WordsOf(chunks[k])) >= 2 => Len(chunks[k]) + 1 <= max_length
        /\ (text = HelloWorldFoo /\ max_length = 11) =>
              chunks = <<Hello, World \o Space \o Foo>>
        /\ (text = HelloWorldFoo /\ max_length = 12) =>
              chunks = <<Hello \o Space \o World, Foo>>

C3_Witness ==
    /\ Returned
    /\ text = HelloWorldFoo
    /\ max_length = 11
    /\ chunks = <<Hello, World \o Space \o Foo>>

-----------------------------------------------------------------------------
(* Properties of summarize_text and process_video, checked under Spec *)

\* the k-th call got a response that is an array of objects with summary_text
CallOk(k) ==
    /\ responses[k].ok
    /\ responses[k].val.kind = "array"
    /\ \A j \in DOMAIN responses[k].val.items :
          responses[k].val.items[j].key = "summary_text"

\* the k-th call got a response whose first element carries a summary
CallGave(k) == CallOk(k) /\ responses[k].val.items # <<>>
FirstSummary(k) == responses[k].val.items[1].value

Called == i >= 1
Running == pc \in {"Summarizing", "ResponseReceived"}

RECURSIVE InOrder(_)
InOrder(k) ==
    IF k = 1 THEN FirstSummary(1)
    ELSE InOrder(k - 1) \o <<"\n", "\n">> \o FirstSummary(k)

\* C4: when every one of the n >= 1 chunk calls returns an array whose first
\* element carries s_k, summarize_text succeeds with s_1, ..., s_n in chunk
\* order joined by "\n\n" (s_1 alone for n = 1).
C4_Joined ==
    (/\ Called /\ ~Running
     /\ Len(chunks) >= 1
     /\ Len(responses) = Len(chunks)
     /\ \A k \in DOMAIN responses : CallGave(k)) =>
        /\ pc \in {"Summarized", "Done"}
        /\ result.val.summary = Some(InOrder(Len(chunks)))
        /\ Len(chunks) = 1 => result.val.summary.val = FirstSummary(1)
        /\ Len(chunks) = 2 =>
              result.val.summary.val =
                  FirstSummary(1) \o <<"\n", "\n">> \o FirstSummary(2)

C4_Witness ==
    /\ pc = "Done"
    /\ Len(chunks) = 2
    /\ \A k \in DOMAIN responses : CallGave(k)
    /\ Len(responses[1].val.items) = 2
    /\ FirstSummary(1) = <<"A">>
    /\ FirstSummary(2) = <<"B">>
    /\ ret.val.summary = Some(<<"A", "\n", "\n", "B">>)

\* C5: requests go out one at a time in chunk order, the request for chunk
\* k+1 only after the response for chunk k was received and parsed; after a
\* failed call no further request is issued and the operation returns an
\* error, with no summary string.
C5_Inv ==
    /\ Len(responses) = Len(requests)
    /\ Len(requests) <= Len(chunks)
    /\ \A k \in DOMAIN requests : requests[k].inputs = chunks[k]
    /\ \A k \in 1..(Len(requests) - 1) : CallOk(k)
    /\ (Called /\ \E k \in DOMAIN responses : ~CallOk(k)) =>
          /\ pc \in {"ResponseReceived", "Failed"}
          /\ pc = "Failed" => (~ret.ok /\ result.val.summary = None)

C5_Step ==
    (\E k \in DOMAIN responses : ~CallOk(k)) =>
        /\ requests' = requests
        /\ pc' \in {"Failed"}

C5_Sequential == [](C5_Inv) /\ [][C5_Step]_vars

C5_Witness ==
    /\ pc = "Failed"
    /\ Len(chunks) = 2
    /\ Len(requests) = 1
    /\ ~CallOk(1)
    /\ ~ret.ok

\* the second of two chunk calls failed in transport
SecondFailed ==
    /\ pc = "Failed"
    /\ Len(chunks) = 2
    /\ Len(responses) = 2
    /\ ~responses[2].ok

\* some layer of the error was formatted with the chunk position k
IdentifiesChunk(e, k) ==
    \E l \in DOMAIN e : \E a \in DOMAIN e[l].args : e[l].args[a] = k

\* C6 as stated: the error returned when the second of two calls fails in
\* transport is the transport error and identifies chunk 2.
C6_AsStated ==
    SecondFailed =>
        /\ ~ret.ok
        /\ ret.err[1].msg = SendFailed
        /\ IdentifiesChunk(ret.err, 2)

\* C6 amended: the error returned is the transport error, "Failed to send
\* request to API" wrapping ureq's error; it names no chunk position, and no
\* summary string is returned.
C6_TransportError ==
    SecondFailed =>
        /\ ret = Err(<<Layer(SendFailed, <<>>), Layer(responses[2].err, <<>>)>>)
        /\ ~IdentifiesChunk(ret.err, 2)
        /\ result.val.summary = None

C6_Witness ==
    /\ SecondFailed
    /\ summaries = <<<<"A">>>>
    /\ ~ret.ok

\* C7: when every chunk call completed without a transport or parse error and
\* no summary was extracted, summarize_text fails with "No summaries were
\* generated", which is neither the transport nor the parse error; a
\* transcript without words gives no chunk and no request, and that error.
C7_NoSummary ==
    /\ (/\ Called /\ ~Running
        /\ Len(responses) = Len(chunks)
        /\ \A k \in DOMAIN responses : CallOk(k) /\ ~CallGave(k)) =>
          /\ pc = "Failed"
          /\ ret = Err(<<Layer(NoSummaries, <<>>)>>)
          /\ ret.err[1].msg \notin {SendFailed, ParseFailed}
    /\ (Called /\ \A k \in DOMAIN text : IsWhitespace(text[k])) =>
          /\ chunks = <<>>
          /\ requests = <<>>

C7_Witness ==
    /\ pc = "Failed"
    /\ Len(chunks) >= 2
    /\ Len(responses) = Len(chunks)
    /\ \A k \in DOMAIN responses : CallOk(k) /\ ~CallGave(k)
    /\ ret = Err(<<Layer(NoSummaries, <<>>)>>)

\* u holds "v=" or "/" followed directly by 11 identifier characters
HasIdentifier(u) ==
    \E p \in 1..Len(u) :
        LET q == IF u[p] = "/" THEN p + 1
                 ELSE IF p < Len(u) /\ u[p] = "v" /\ u[p + 1] = "=" THEN p + 2
                 ELSE 0
        IN  /\ q # 0
            /\ q + 10 <= Len(u)
            /\ \A k \in 0..10 : u[q + k] \in IdChars

\* C8: on a source string without a valid 11-character identifier
\* process_video fails with "Failed to extract video ID from URL", and neither
\* the transcript command nor any summarization request is ever run.
C8_NotFound ==
    (pc # "Start" /\ ~HasIdentifier(youtube_url)) =>
        /\ pc = "Failed"
        /\ ret = Err(<<Layer(ExtractFailed, <<>>)>>)
        /\ fetches = <<>>
        /\ requests = <<>>

C8_Witness ==
    /\ pc = "Failed"
    /\ ~HasIdentifier(youtube_url)
    /\ Len(youtube_url) > IdLen
    /\ ret = Err(<<Layer(ExtractFailed, <<>>)>>)
    /\ fetches = <<>>

\* the stage of the orchestrator a position belongs to
Stage(p) == IF p \in {"Summarizing", "ResponseReceived"} THEN "TranscriptFetched" ELSE p

Linear ==
    {<<"Start", "IdentifierExtracted">>,
     <<"IdentifierExtracted", "TranscriptFetched">>,
     <<"TranscriptFetched", "TranscriptFetched">>,
     <<"TranscriptFetched", "Summarized">>,
     <<"Summarized", "Done">>,
     <<"Start", "Failed">>,
     <<"IdentifierExtracted", "Failed">>,
     <<"TranscriptFetched", "Failed">>}

FetchSucceeded ==
    /\ Len(fetches) = 1
    /\ fetches[1].output.spawned
    /\ fetches[1].output.success
    /\ fetches[1].output.utf8
    /\ result.val.transcript = Some(fetches[1].output.stdout)

C9_Inv ==
    /\ Len(fetches) <= 1
    /\ Stage(pc) \in {"TranscriptFetched", "Summarized", "Done"} => FetchSucceeded
    /\ (Called \/ requests # <<>>) => FetchSucceeded
    /\ pc \notin {"Done", "Failed"} => ret = None
    /\ pc = "Failed" => ~ret.ok
    /\ pc = "Done" =>
          /\ ret.ok
          /\ ret.val.video_id.some
          /\ ret.val.transcript.some
          /\ ret.val.summary.some

C9_Step ==
    /\ <<Stage(pc), Stage(pc')>> \in Linear
    /\ Len(requests') \in {Len(requests), Len(requests) + 1}
    /\ Stage(pc) = Stage(pc') => fetches' = fetches

\* C9: a run goes Start -> IdentifierExtracted -> TranscriptFetched ->
\* Summarized -> Done, no stage skipped, repeated or retried; summarization
\* starts only after the transcript was fetched; the first failure ends the
\* run in Failed with no Summary returned; Done returns a Summary with
\* video_id, transcript and summary all present.
C9_Linear == [](C9_Inv) /\ [][C9_Step]_vars

C9_Witness ==
    /\ pc = "Done"
    /\ Len(chunks) >= 2
    /\ ret.ok
    /\ ret.val.summary.some

\* C10: a successful summarize_text joins exactly one summary per chunk.
C10_NoChunkSkipped ==
    pc \in {"Summarized", "Done"} =>
        /\ Len(summaries) = Len(chunks)
        /\ result.val.summary = Some(join(summaries, Separator))

====
